---------------------------- MODULE Spec2Model ----------------------------
(***************************************************************************)
(* kask (src/kui/kui.go): the launcher that resolves the cache of one     *)
(* Kui version (targetDir = pluginDir/cache-<version>), downloads and      *)
(* extracts the distribution when the success marker is absent, and then   *)
(* hands over to the extracted binary.                                     *)
(*                                                                         *)
(* The file system, the network, the archive extractor and the child       *)
(* process are the environment: every call the code makes to them is one   *)
(* step whose outcome (nil or an error, and what an interrupted write      *)
(* leaves behind) is chosen nondeterministically.  The process can also    *)
(* stop between any two steps (Crash).                                     *)
(***************************************************************************)
EXTENDS Integers, Sequences, FiniteSets, TLC

\* Number of entries of the distribution archive; entry 1 is the root
\* executable that GetRootCommand points at.
NFiles == 2

\* Longest list of sub-arguments drawn by the launch-planning specification.
MaxSubArgs == 3

\* Most dot-separated components of a build-time version string.
MaxComponents == 4

Files == 1..NFiles

\* Launcher processes.  Spec runs process 1 alone (section 5 of the design:
\* one launcher per user at a time).
Procs == {1, 2}
SeqProcs == {1}

\* What an entry of extractedDir holds: nothing, a torn (partly written)
\* file, a complete file written by an earlier invocation, or a complete
\* file written by the current invocation of process 1 / 2.
Tag(p) == IF p = 1 THEN "p1" ELSE "p2"
FullTags == {"old", "p1", "p2"}

---------------------------------------------------------------------------
\* Program names (Go's args[0]) as sequences of characters.
kask == <<"k","a","s","k">>
kubectlPrefix == <<"k","u","b","e","c","t","l","-">>
kubectlFoo == kubectlPrefix \o <<"f","o","o">>
binKubectlFoo == <<"/","b","i","n","/">> \o kubectlFoo

\* const defaultCommandContext = "plugin"
defaultCommandContext == <<"p","l","u","g","i","n">>

\* argv lists the launcher is started with; element 1 is Go's args[0].
ArgvSamples ==
  { <<kask>>,
    <<kask, "-h">>, <<kask, "--help">>, <<kask, "--help", "install">>,
    <<kask, "refresh">>, <<kask, "refresh", "--ui">>,
    <<kask, "version">>, <<kask, "install">>, <<kask, "install", "--ui">>,
    <<kask, "list">>, <<kask, "get", "pods">>,
    <<binKubectlFoo, "version">>, <<binKubectlFoo, "refresh">> }

\* const PLUGIN_VERSION = "dev": the development sentinel
dev == <<"d","e","v">>

\* GetDistLocation's fixed host, before the version is appended
defaultHost ==
  <<"h","t","t","p","s",":","/","/","s","3","-","a","p","i",".","u","s","-","g","e","o",".","o","b","j","e","c","t","s","t","o","r","a","g","e",".","s","o","f","t","l","a","y","e","r",".","n","e","t","/","k","u","i","-">>

\* GetDistOSSuffix
suffixWindows == <<"-","b","a","s","e","-","w","i","n","3","2","-","x","6","4",".","z","i","p">>
suffixDarwin == <<"-","b","a","s","e","-","d","a","r","w","i","n","-","x","6","4",".","t","a","r",".","b","z","2">>
suffixLinux == <<"-","b","a","s","e","-","l","i","n","u","x","-","x","6","4",".","z","i","p">>

\* what KUI_DIST looks like when os.LookupEnv does not find it
Unset == [set |-> FALSE, value |-> <<>>]

\* variables of os.Environ() that Run also sets itself; a name in the set
\* stands for NAME=true
InheritableEnv == {"KUI_HEADLESS"}

NoVersion == [kind |-> "none", Major |-> 0, Minor |-> 0, Build |-> 0]

VARIABLES
  \* the build and the machine
  pluginVersion,  \* the string substituted for PLUGIN_VERSION
  kuiDist,        \* the KUI_DIST variable of the environment
  goos,           \* runtime.GOOS
  \* the cache of one version on disk
  targetDir,      \* targetDir exists
  success,        \* successFile (targetDir/success) exists
  extractedDir,   \* extractedDir (targetDir/extract) exists
  files,          \* files[f]: what entry f of extractedDir holds
  downloaded,     \* targetDir/downloaded.zip: "none", "partial" or "full"
  symlink,        \* binDir/kubectl-<basename> exists
  \* one launcher process
  environ,        \* os.Environ(): the inheritable variables that are set
  version,        \* metadata.Version, as GetVersion resolved it
  url,            \* GetDistLocation(version)
  pc,             \* position of the process in Run / DownloadDistIfNecessary
  args,           \* argv of the current invocation
  force,          \* refreshRequested, passed as force
  result,         \* what DownloadDistIfNecessary returned ("nil" or the error)
  cmdEnv,         \* names of the variables injected in cmd.Env
  kuiCommandContext, \* value of KUI_COMMAND_CONTEXT
  cmdArgs,        \* kaskArgs appended to cmd.Args
  style,          \* ExecStyle chosen by Run
  child,          \* what became of the child process
  exit,           \* how Run ended
  \* history of the current invocation
  trace,          \* the file-system / network calls made so far, in order
  faults,         \* the calls of trace that returned an error other than "not found"
  entry,          \* the cache as the invocation found it
  prev,           \* result of the previous DownloadDistIfNecessary invocation
  ran,            \* the installation the child was launched against
  readySince      \* an invocation succeeded and no forced one began since

buildvars == <<pluginVersion, kuiDist, goos>>
locvars == <<environ, version, url>>
fsvars == <<targetDir, success, extractedDir, files, downloaded, symlink>>
procvars == <<pc, args, force, result, cmdEnv, kuiCommandContext, cmdArgs,
              style, child, exit>>
histvars == <<trace, faults, entry, prev, ran, readySince>>
vars == <<buildvars, locvars, fsvars, procvars, histvars>>

---------------------------------------------------------------------------
\* Updates of one process's component.
Set(f, p, v) == [f EXCEPT ![p] = v]

NoFiles == [f \in Files |-> "none"]
NoInstall == [dir |-> FALSE, files |-> NoFiles]
EmptyEntry == [success |-> FALSE, nonEmpty |-> FALSE]

\* Positions inside DownloadDistIfNecessary.
DDINSteps == {"metadata", "location", "pluginDir", "executable", "rmMarker", "rmDir", "stat", "mkdir",
              "download", "symlink", "extract", "marker"}

Init ==
  /\ pluginVersion = dev
  /\ kuiDist = Unset
  /\ goos = "linux"
  /\ environ \in [Procs -> SUBSET InheritableEnv]
  /\ \A p \in Procs \ SeqProcs : environ[p] = {}
  /\ version = [p \in Procs |-> NoVersion]
  /\ url = [p \in Procs |-> <<>>]
  /\ targetDir = FALSE
  /\ success = FALSE
  /\ extractedDir = FALSE
  /\ files = NoFiles
  /\ downloaded = "none"
  /\ symlink = FALSE
  /\ pc = [p \in Procs |-> "idle"]
  /\ args = [p \in Procs |-> <<>>]
  /\ force = [p \in Procs |-> FALSE]
  /\ result = [p \in Procs |-> "none"]
  /\ cmdEnv = [p \in Procs |-> {}]
  /\ kuiCommandContext = [p \in Procs |-> <<>>]
  /\ cmdArgs = [p \in Procs |-> <<>>]
  /\ style = [p \in Procs |-> "none"]
  /\ child = [p \in Procs |-> "none"]
  /\ exit = [p \in Procs |-> "none"]
  /\ trace = [p \in Procs |-> <<>>]
  /\ faults = [p \in Procs |-> {}]
  /\ entry = [p \in Procs |-> EmptyEntry]
  /\ prev = [p \in Procs |-> "none"]
  /\ ran = [p \in Procs |-> NoInstall]
  /\ readySince = FALSE


---------------------------------------------------------------------------
\* Run, the pure parts.

\* a help test that does not count the arguments
IsUsageAnyLength(a) == IF Len(a) = 1 THEN TRUE ELSE a[2] \in {"-h", "--help"}

\* len(args) == 1 || (len(args) == 2 && (args[1] == "-h" || args[1] == "--help"))
IsUsage(a) == Len(a) = 1 \/ (Len(a) = 2 /\ a[2] \in {"-h", "--help"})

\* refreshRequested := args[1] == "refresh"
RefreshRequested(a) == a[2] = "refresh"

\* Run aborting on one kind of error only
RunAbortsOnDownloadOnly(res) == res = "DownloadFailed"

\* if err != nil { os.Exit(1) }
RunAborts(res) == res # "nil"

\* kaskArgs: ["version"] after a refresh, args[1:] otherwise
KaskArgs(a, refreshRequested) ==
  IF refreshRequested THEN <<"version">> ELSE Tail(a)

\* path.Base: trailing slashes dropped, then the part after the last slash.
RECURSIVE StripTrailingSlashes(_)
StripTrailingSlashes(s) ==
  IF Len(s) > 0 /\ s[Len(s)] = "/"
    THEN StripTrailingSlashes(SubSeq(s, 1, Len(s) - 1))
    ELSE s

RECURSIVE LastSlash(_, _)
LastSlash(s, i) ==
  IF i = 0 THEN 0 ELSE IF s[i] = "/" THEN i ELSE LastSlash(s, i - 1)

Base(s) ==
  IF s = <<>> THEN <<".">>
  ELSE LET t == StripTrailingSlashes(s)
       IN IF t = <<>> THEN <<"/">>
          ELSE SubSeq(t, LastSlash(t, Len(t)) + 1, Len(t))

\* regexp "^kubectl-": MatchString
HasKubectlPrefix(s) ==
  /\ Len(s) >= Len(kubectlPrefix)
  /\ SubSeq(s, 1, Len(kubectlPrefix)) = kubectlPrefix

\* a derivation that keeps the launcher's own name
CommandContextKeepsKask(arg0) ==
  LET base == Base(arg0)
  IN IF HasKubectlPrefix(base)
       THEN SubSeq(base, Len(kubectlPrefix) + 1, Len(base))
       ELSE defaultCommandContext

\* the command context Run derives from args[0]
CommandContext(arg0) ==
  LET base == Base(arg0)
      stripped == IF HasKubectlPrefix(base)
                    THEN SubSeq(base, Len(kubectlPrefix) + 1, Len(base))
                    ELSE defaultCommandContext
  IN IF stripped = kask THEN defaultCommandContext ELSE stripped

\* arg == "install" || arg == "uninstall" || arg == "list" || ...
HeadlessCommands == {"install", "uninstall", "list", "version", "commands"}

\* the headless test without the look at --ui
HeadlessIgnoringUi(kaskArgs) == kaskArgs[1] \in HeadlessCommands

\* the test that switches Run to headless mode
Headless(kaskArgs) ==
  /\ kaskArgs[1] \in HeadlessCommands
  /\ (Len(kaskArgs) = 1 \/ kaskArgs[2] # "--ui")

\* a headless switch that sets no variable
HeadlessEnvNone(headless) == {}

\* cmd.Env = append(cmd.Env, "KUI_HEADLESS=true"), inside the headless test
HeadlessEnv(headless) == IF headless THEN {"KUI_HEADLESS"} ELSE {}

ExecStyleOf(kaskArgs) ==
  IF Headless(kaskArgs) THEN "ExecWithRun" ELSE "ExecWithStart"

\* the variables DownloadDistIfNecessary appends to os.Environ() in command.Env
BaseEnv == {"KUI_BIN_DIR", "KUI_BIN_PREFIX", "KUI_BIN_PREFIX_FOR_COMMANDS",
            "KUI_BIN", "KUI_DEFAULT_PRETTY_TYPE"}

\* what cmd.Start() / cmd.Run() can come to; the root executable (entry 1 of
\* extractedDir) has to be there for the child to start
ChildOutcomes(st) ==
  LET canStart == extractedDir /\ files[1] \in FullTags
  IN {"startFailed"}
       \cup (IF canStart /\ st = "ExecWithStart" THEN {"started"} ELSE {})
       \cup (IF canStart /\ st = "ExecWithRun" THEN {"exitOk", "exitFail"} ELSE {})

\* how Run ends once invokeRun has returned
AfterInvokeRun(outcome) == "return"

---------------------------------------------------------------------------
\* Run, from the start to the call of DownloadDistIfNecessary.

\* a new invocation of process p: its own files of the run before are old now
Relabel(p) == [f \in Files |-> IF files[f] = Tag(p) THEN "old" ELSE files[f]]

ResetInvocation(p, a) ==
  /\ args' = Set(args, p, a)
  /\ cmdEnv' = Set(cmdEnv, p, {})
  /\ kuiCommandContext' = Set(kuiCommandContext, p, <<>>)
  /\ cmdArgs' = Set(cmdArgs, p, <<>>)
  /\ style' = Set(style, p, "none")
  /\ child' = Set(child, p, "none")
  /\ trace' = Set(trace, p, <<>>)
  /\ faults' = Set(faults, p, {})
  /\ entry' = Set(entry, p, [success |-> success,
                              nonEmpty |-> \E f \in Files : files[f] # "none"])
  /\ prev' = Set(prev, p, IF result[p] = "none" THEN prev[p] ELSE result[p])
  /\ ran' = Set(ran, p, NoInstall)
  /\ files' = Relabel(p)
  /\ version' = Set(version, p, NoVersion)
  /\ url' = Set(url, p, <<>>)
  /\ UNCHANGED <<targetDir, success, extractedDir, downloaded, symlink,
                 buildvars, environ>>

\* the usage text and os.Exit(1)
RunUsage(p) ==
  /\ pc[p] \in {"idle", "done"}
  /\ \E a \in ArgvSamples :
       /\ IsUsage(a)
       /\ ResetInvocation(p, a)
  /\ force' = Set(force, p, FALSE)
  /\ result' = Set(result, p, "none")
  /\ pc' = Set(pc, p, "done")
  /\ exit' = Set(exit, p, "exit1")
  /\ UNCHANGED readySince

\* refreshRequested, and the call DownloadDistIfNecessary(context, refreshRequested)
RunBegin(p) ==
  /\ pc[p] \in {"idle", "done"}
  /\ \E a \in ArgvSamples :
       /\ ~IsUsage(a)
       /\ ResetInvocation(p, a)
       /\ force' = Set(force, p, RefreshRequested(a))
       /\ readySince' = (readySince /\ ~RefreshRequested(a))
  /\ result' = Set(result, p, "running")
  /\ pc' = Set(pc, p, "metadata")
  /\ exit' = Set(exit, p, "none")

---------------------------------------------------------------------------
\* The version and the distribution URL, as the code computes them.

DigitSeq == <<"0", "1", "2", "3", "4", "5", "6", "7", "8", "9">>
Digits == {DigitSeq[i] : i \in 1..Len(DigitSeq)}
DigitVal(c) == (CHOOSE i \in 1..Len(DigitSeq) : DigitSeq[i] = c) - 1

\* strings.Split(s, "."): the pieces between the dots, at least one piece
RECURSIVE Split(_)
Split(s) ==
  IF \E i \in 1..Len(s) : s[i] = "."
    THEN LET i == CHOOSE k \in 1..Len(s) :
                    s[k] = "." /\ \A j \in 1..(k - 1) : s[j] # "."
         IN <<SubSeq(s, 1, i - 1)>> \o Split(SubSeq(s, i + 1, Len(s)))
    ELSE <<s>>

RECURSIVE DecValue(_)
DecValue(ds) ==
  IF ds = <<>> THEN 0
  ELSE 10 * DecValue(SubSeq(ds, 1, Len(ds) - 1)) + DigitVal(ds[Len(ds)])

\* strconv.Atoi: an optional sign and at least one decimal digit, or an error
Atoi(c) ==
  LET signed == c # <<>> /\ c[1] \in {"+", "-"}
      ds == IF signed THEN Tail(c) ELSE c
  IN IF ds # <<>> /\ \A i \in 1..Len(ds) : ds[i] \in Digits
       THEN [err |-> FALSE,
             n |-> IF signed /\ c[1] = "-" THEN 0 - DecValue(ds) ELSE DecValue(ds)]
       ELSE [err |-> TRUE, n |-> 0]

\* a conversion that loses the number
toIntZero(c) == 0

\* outValue, _ := strconv.Atoi(in): the error is dropped, the value is 0 then
toInt(c) == Atoi(c).n

\* GetVersion of the build-time string v; indexing s[1], s[2] panics when
\* Split gave fewer than three pieces
GetVersion(v) ==
  IF v = dev
    THEN [kind |-> "DevVer", Major |-> 0, Minor |-> 0, Build |-> 0]
    ELSE LET s == Split(v)
         IN IF Len(s) < 3
              THEN [kind |-> "panic", Major |-> 0, Minor |-> 0, Build |-> 0]
              ELSE [kind |-> "SemVer", Major |-> toInt(s[1]),
                    Minor |-> toInt(s[2]), Build |-> toInt(s[3])]

\* the verb %d
RECURSIVE NatStr(_)
NatStr(n) ==
  IF n < 10 THEN <<DigitSeq[n + 1]>>
  ELSE NatStr(n \div 10) \o <<DigitSeq[(n % 10) + 1]>>
IntStr(n) == IF n < 0 THEN <<"-">> \o NatStr(0 - n) ELSE NatStr(n)

\* VersionType.String(): DevVer gives PLUGIN_VERSION, SemVer "%d.%d.%d"
String(ver) ==
  IF ver.kind = "DevVer" THEN pluginVersion
  ELSE IntStr(ver.Major) \o <<".">> \o IntStr(ver.Minor) \o <<".">>
         \o IntStr(ver.Build)

GetDistOSSuffix(os) ==
  CASE os = "windows" -> suffixWindows
    [] os = "darwin" -> suffixDarwin
    [] OTHER -> suffixLinux

\* a host that never looks as if it ended in a slash
HasSlashSuffixNever(host) == FALSE

\* strings.HasSuffix(host, "/")
HasSlashSuffix(host) == host # <<>> /\ host[Len(host)] = "/"

GetDistLocation(ver, dist, os) ==
  LET host == IF dist.set THEN dist.value ELSE defaultHost \o ver
      slashed == IF ~HasSlashSuffix(host) THEN host \o <<"/">> ELSE host
  IN slashed \o <<"K", "u", "i">> \o GetDistOSSuffix(os)

---------------------------------------------------------------------------
\* DownloadDistIfNecessary, one step per call to the environment.

\* the call is made; it faults when ok is FALSE
Called(p, step, ok) ==
  /\ trace' = Set(trace, p, Append(trace[p], step))
  /\ faults' = Set(faults, p, IF ok THEN faults[p] ELSE faults[p] \cup {step})

\* DownloadDistIfNecessary returns res to Run
Return(p, res) ==
  /\ result' = Set(result, p, res)
  /\ pc' = Set(pc, p, "ret")
  /\ readySince' = (readySince \/ res = "nil")

Goto(p, to) ==
  /\ pc' = Set(pc, p, to)
  /\ UNCHANGED <<result, readySince>>

\* if force { ... } comes before the readiness check
AfterExecutable(f) == IF f THEN "rmMarker" ELSE "stat"

\* whether a path of the cache exists
Exists(path) ==
  CASE path = "successFile" -> success
    [] path = "extractedDir" -> extractedDir
    [] path = "targetDir" -> targetDir

\* a readiness check that trusts the extracted directory
ReadinessPathExtractedDir == "extractedDir"

\* the path the readiness check looks at: os.Stat(successFile)
ReadinessPath == "successFile"

\* a readiness check that always fetches, and one with the test inverted
StatFailsAlways(exists) == TRUE
StatFailsInverted(exists) == exists

\* if _, err := os.Stat(...); err != nil { fetch } else { cached }
StatFails(exists) == ~exists

\* a symlink step whose failure ends the invocation
SymlinkErrorFatal(linked) == IF linked THEN "nil" ELSE "SymlinkFailed"

\* os.Remove(targetOfSymlink); os.Symlink(executable, targetOfSymlink):
\* neither result is looked at
SymlinkError(linked) == "nil"

\* an extraction whose error is dropped
UnarchiveErrorDropped(ok) == "nil"

\* if err := ...Unarchive(downloadedFile, extractedDir); err != nil { return nil, err }
UnarchiveError(ok) == IF ok THEN "nil" ELSE "ArchiveExtractionFailed"

\* pluginDir, err := context.PluginDirectory()
\* metadata := p.GetMetadata(): GetVersion resolves the build-time string, or
\* panics and the process dies
GetMetadata(p) ==
  /\ pc[p] = "metadata"
  /\ LET ver == GetVersion(pluginVersion)
     IN /\ version' = Set(version, p, ver)
        /\ IF ver.kind = "panic"
             THEN /\ pc' = Set(pc, p, "done")
                  /\ result' = Set(result, p, "interrupted")
                  /\ exit' = Set(exit, p, "panic")
                  /\ UNCHANGED readySince
             ELSE /\ Goto(p, "location")
                  /\ UNCHANGED exit
  /\ UNCHANGED <<fsvars, args, force, cmdEnv, kuiCommandContext, cmdArgs,
                 style, child, histvars, buildvars, environ, url>>

\* version := metadata.Version.String(); url := GetDistLocation(version)
DistLocation(p) ==
  /\ pc[p] = "location"
  /\ url' = Set(url, p, GetDistLocation(String(version[p]), kuiDist, goos))
  /\ Goto(p, "pluginDir")
  /\ UNCHANGED <<fsvars, args, force, cmdEnv, kuiCommandContext, cmdArgs,
                 style, child, exit, histvars, buildvars, environ, version>>

PluginDirectory(p) ==
  /\ pc[p] = "pluginDir"
  /\ \E ok \in BOOLEAN :
       /\ Called(p, "pluginDir", ok)
       /\ IF ok THEN Goto(p, "executable")
                ELSE Return(p, "HomeDirectoryUnavailable")
  /\ UNCHANGED <<fsvars, args, force, cmdEnv, kuiCommandContext, cmdArgs,
                 style, child, exit, entry, prev, ran>>
  /\ UNCHANGED <<buildvars, locvars>>

\* executable, err := os.Executable(); command := GetRootCommand(extractedDir)
\* with its environment
Executable(p) ==
  /\ pc[p] = "executable"
  /\ \E ok \in BOOLEAN :
       /\ Called(p, "executable", ok)
       /\ IF ok THEN /\ Goto(p, AfterExecutable(force[p]))
                     /\ cmdEnv' = Set(cmdEnv, p, environ[p] \cup BaseEnv)
                ELSE /\ Return(p, "ExecutableUnavailable")
                     /\ UNCHANGED cmdEnv
  /\ UNCHANGED <<fsvars, args, force, kuiCommandContext, cmdArgs,
                 style, child, exit, entry, prev, ran>>
  /\ UNCHANGED <<buildvars, locvars>>

\* err := os.Remove(successFile): the marker goes, or the call fails and the
\* error is only logged ("not found" when there is no marker)
RemoveMarker(p) ==
  /\ pc[p] = "rmMarker"
  /\ \E ok \in BOOLEAN :
       /\ ~success => ok
       /\ success' = (success /\ ~ok)
       /\ Called(p, "rmMarker", ok)
  /\ Goto(p, "rmDir")
  /\ UNCHANGED <<targetDir, extractedDir, files, downloaded, symlink, args,
                 force, cmdEnv, kuiCommandContext, cmdArgs, style, child, exit,
                 entry, prev, ran>>
  /\ UNCHANGED <<buildvars, locvars>>

\* err2 := os.RemoveAll(extractedDir): everything goes, or the call fails
\* after removing the entries before k; the error is only logged
RemoveExtracted(p) ==
  /\ pc[p] = "rmDir"
  /\ \/ /\ extractedDir' = FALSE
        /\ files' = NoFiles
        /\ Called(p, "rmDir", TRUE)
     \/ /\ extractedDir
        /\ \E k \in Files :
             files' = [f \in Files |-> IF f < k THEN "none" ELSE files[f]]
        /\ UNCHANGED extractedDir
        /\ Called(p, "rmDir", FALSE)
  /\ Goto(p, "stat")
  /\ UNCHANGED <<targetDir, success, downloaded, symlink, args,
                 force, cmdEnv, kuiCommandContext, cmdArgs, style, child, exit,
                 entry, prev, ran>>
  /\ UNCHANGED <<buildvars, locvars>>

\* os.Stat(successFile): the readiness check
Stat(p) ==
  /\ pc[p] = "stat"
  /\ Called(p, "stat", TRUE)
  /\ IF StatFails(Exists(ReadinessPath)) THEN Goto(p, "mkdir")
                                          ELSE Return(p, "nil")
  /\ UNCHANGED <<fsvars, args, force, cmdEnv, kuiCommandContext, cmdArgs,
                 style, child, exit, entry, prev, ran>>
  /\ UNCHANGED <<buildvars, locvars>>

\* os.MkdirAll(extractedDir, 0700); its error is dropped
MkdirAll(p) ==
  /\ pc[p] = "mkdir"
  /\ \E ok \in BOOLEAN :
       /\ targetDir' = (targetDir \/ ok)
       /\ extractedDir' = (extractedDir \/ ok)
       /\ Called(p, "mkdir", ok)
  /\ Goto(p, "download")
  /\ UNCHANGED <<success, files, downloaded, symlink, args,
                 force, cmdEnv, kuiCommandContext, cmdArgs, style, child, exit,
                 entry, prev, ran>>
  /\ UNCHANGED <<buildvars, locvars>>

\* DownloadFile(downloadedFile, url): http.Get fails, os.Create fails (it
\* must when targetDir is missing), io.Copy fails after os.Create truncated
\* the file, or the whole body is written
DownloadFile(p) ==
  /\ pc[p] = "download"
  /\ \E outcome \in {"getFailed", "createFailed", "copyFailed", "ok"} :
       /\ outcome \in {"copyFailed", "ok"} => targetDir
       /\ downloaded' = CASE outcome = "ok" -> "full"
                          [] outcome = "copyFailed" -> "partial"
                          [] OTHER -> downloaded
       /\ Called(p, "download", outcome = "ok")
       /\ IF outcome = "ok" THEN Goto(p, "symlink")
                            ELSE Return(p, "DownloadFailed")
  /\ UNCHANGED <<targetDir, success, extractedDir, files, symlink, args,
                 force, cmdEnv, kuiCommandContext, cmdArgs, style, child, exit,
                 entry, prev, ran>>
  /\ UNCHANGED <<buildvars, locvars>>

\* os.Remove(targetOfSymlink); os.Symlink(executable, targetOfSymlink):
\* neither result is looked at
Symlink(p) ==
  /\ pc[p] = "symlink"
  /\ \E removed \in BOOLEAN, linked \in BOOLEAN :
       /\ (symlink /\ ~removed) => ~linked
       /\ symlink' = ((symlink /\ ~removed) \/ linked)
       /\ Called(p, "symlink", linked)
       /\ IF SymlinkError(linked) = "nil"
            THEN Goto(p, "extract")
            ELSE Return(p, SymlinkError(linked))
  /\ UNCHANGED <<targetDir, success, extractedDir, files, downloaded, args,
                 force, cmdEnv, kuiCommandContext, cmdArgs, style, child, exit,
                 entry, prev, ran>>
  /\ UNCHANGED <<buildvars, locvars>>

\* extractedDir after Unarchive wrote the entries before k (all of them when
\* k = NFiles + 1) and left entry k torn or untouched
Extracted(p, k, torn) ==
  [f \in Files |-> IF f < k THEN Tag(p)
                   ELSE IF f = k /\ torn THEN "torn"
                   ELSE files[f]]

\* archiver.DefaultTarBz2.Unarchive / archiver.DefaultZip.Unarchive
\* (downloadedFile, extractedDir): all entries are written, or the call
\* fails at entry k
Unarchive(p) ==
  /\ pc[p] = "extract"
  /\ \E ok \in BOOLEAN :
       /\ ok => downloaded = "full"
       /\ \E k \in 1..(NFiles + 1), torn \in BOOLEAN :
            /\ ok <=> (k = NFiles + 1)
            /\ ok => ~torn
            /\ files' = Extracted(p, k, torn)
            /\ extractedDir' = (extractedDir \/ k > 1 \/ torn)
       /\ Called(p, "extract", ok)
       /\ IF UnarchiveError(ok) = "nil"
            THEN Goto(p, "marker")
            ELSE Return(p, UnarchiveError(ok))
  /\ UNCHANGED <<targetDir, success, downloaded, symlink, args,
                 force, cmdEnv, kuiCommandContext, cmdArgs, style, child, exit,
                 entry, prev, ran>>
  /\ UNCHANGED <<buildvars, locvars>>

\* os.OpenFile(successFile, os.O_RDONLY|os.O_CREATE, 0666): the commit point
CreateMarker(p) ==
  /\ pc[p] = "marker"
  /\ \E ok \in BOOLEAN :
       /\ ok => targetDir
       /\ success' = (success \/ ok)
       /\ Called(p, "marker", ok)
       /\ Return(p, IF ok THEN "nil" ELSE "MarkerCreationFailed")
  /\ UNCHANGED <<targetDir, extractedDir, files, downloaded, symlink, args,
                 force, cmdEnv, kuiCommandContext, cmdArgs, style, child, exit,
                 entry, prev, ran>>
  /\ UNCHANGED <<buildvars, locvars>>

---------------------------------------------------------------------------
\* Run, after DownloadDistIfNecessary returned.

\* os.Exit(1) on an error; otherwise kaskArgs, the command context, the
\* execution style, and invokeRun
Launch(p) ==
  /\ pc[p] = "ret"
  /\ IF RunAborts(result[p])
       THEN /\ exit' = Set(exit, p, "exit1")
            /\ UNCHANGED <<cmdEnv, kuiCommandContext, cmdArgs, style, child, ran>>
       ELSE LET kaskArgs == KaskArgs(args[p], force[p])
                st == ExecStyleOf(kaskArgs)
            IN /\ kuiCommandContext' =
                    Set(kuiCommandContext, p, CommandContext(args[p][1]))
               /\ cmdEnv' = Set(cmdEnv, p,
                    cmdEnv[p] \cup {"KUI_COMMAND_CONTEXT"}
                      \cup HeadlessEnv(Headless(kaskArgs)))
               /\ style' = Set(style, p, st)
               /\ cmdArgs' = Set(cmdArgs, p, kaskArgs)
               /\ ran' = Set(ran, p, [dir |-> extractedDir, files |-> files])
               /\ \E outcome \in ChildOutcomes(st) :
                    /\ child' = Set(child, p, outcome)
                    /\ exit' = Set(exit, p, AfterInvokeRun(outcome))
  /\ pc' = Set(pc, p, "done")
  /\ UNCHANGED <<fsvars, args, force, result, trace, faults, entry, prev,
                 readySince>>
  /\ UNCHANGED <<buildvars, locvars>>

\* the process stops between two steps (killed, power lost)
Crash(p) ==
  /\ pc[p] \notin {"idle", "done"}
  /\ pc' = Set(pc, p, "done")
  /\ exit' = Set(exit, p, "crash")
  /\ result' = Set(result, p,
                   IF pc[p] \in DDINSteps THEN "interrupted" ELSE result[p])
  /\ UNCHANGED <<fsvars, args, force, cmdEnv, kuiCommandContext, cmdArgs,
                 style, child, histvars>>
  /\ UNCHANGED <<buildvars, locvars>>

Step(p) ==
  \/ RunUsage(p)
  \/ RunBegin(p)
  \/ GetMetadata(p)
  \/ DistLocation(p)
  \/ PluginDirectory(p)
  \/ Executable(p)
  \/ RemoveMarker(p)
  \/ RemoveExtracted(p)
  \/ Stat(p)
  \/ MkdirAll(p)
  \/ DownloadFile(p)
  \/ Symlink(p)
  \/ Unarchive(p)
  \/ CreateMarker(p)
  \/ Launch(p)
  \/ Crash(p)

Next == \E p \in SeqProcs : Step(p)

Spec == Init /\ [][Next]_vars

---------------------------------------------------------------------------
\* Vocabulary of the properties.

\* extractedDir holds every entry of the archive, whole, from one extraction
Complete == extractedDir /\ \E t \in FullTags : \A f \in Files : files[f] = t

\* DownloadDistIfNecessary of process p has returned in the current invocation
Returned(p) == result[p] \notin {"none", "running", "interrupted"}

\* position of the first occurrence of step in the trace of p, 0 when absent
FirstAt(p, step) ==
  IF \E i \in 1..Len(trace[p]) : trace[p][i] = step
    THEN CHOOSE i \in 1..Len(trace[p]) :
           /\ trace[p][i] = step
           /\ \A j \in 1..(i - 1) : trace[p][j] # step
    ELSE 0

Did(p, step) == FirstAt(p, step) > 0

\* the call was made and returned without error
DidOk(p, step) == Did(p, step) /\ step \notin faults[p]

---------------------------------------------------------------------------
\* C1: in every reachable state of the cache, whatever steps failed and
\* wherever a process stopped, if the success marker exists then
\* extractedDir holds a complete extraction of the archive.
C1_MarkerImpliesComplete == success => Complete

---------------------------------------------------------------------------
\* what is on disk under targetDir, whoever wrote it
Contents ==
  [f \in Files |-> IF files[f] \in FullTags THEN "full" ELSE files[f]]
CacheOnDisk == <<targetDir, success, extractedDir, Contents, downloaded>>

\* the calls a cache hit makes: none writes, removes or fetches
ReadOnlyCalls == {"pluginDir", "executable", "stat"}

\* C2: once an invocation has succeeded, every later invocation with
\* force=false (as long as no forced invocation begins) is a pure cache hit:
\* the marker stays, nothing under targetDir is written, removed or created,
\* and the only calls made are the lookups and the readiness check, so there
\* is no further download and no further extraction.
C2_CacheHitIsPure ==
  [][ (readySince /\ readySince') =>
        /\ success /\ success'
        /\ CacheOnDisk' = CacheOnDisk
        /\ \A p \in SeqProcs :
             trace'[p] # trace[p] =>
               \A i \in 1..Len(trace'[p]) : trace'[p][i] \in ReadOnlyCalls ]_vars

\* a second, non-forced invocation after a success has run to its end
C2_Witness ==
  \E p \in SeqProcs :
    /\ prev[p] = "nil" /\ ~force[p] /\ entry[p].success
    /\ pc[p] = "done" /\ exit[p] = "return"
    /\ trace[p] = <<"pluginDir", "executable", "stat">>
    /\ readySince

---------------------------------------------------------------------------
\* C3: an invocation that found the marker absent, whatever extractedDir
\* held, returns success only after it downloaded and then extracted.
C3_NoMarkerMeansFetch ==
  \A p \in SeqProcs :
    (Returned(p) /\ result[p] = "nil" /\ ~entry[p].success) =>
      /\ DidOk(p, "download")
      /\ DidOk(p, "extract")
      /\ FirstAt(p, "stat") < FirstAt(p, "download")
      /\ FirstAt(p, "download") < FirstAt(p, "extract")

\* a success from a cache that held files but no marker
C3_Witness ==
  \E p \in SeqProcs :
    /\ Returned(p) /\ result[p] = "nil"
    /\ ~entry[p].success /\ entry[p].nonEmpty /\ ~force[p]

---------------------------------------------------------------------------
\* C4: a forced invocation has removed the marker and extractedDir when it
\* comes to the readiness check, hence before any download; with nothing to
\* remove the cleanup does not fail the invocation, which goes on to fetch.
C4_ForceRemovesBeforeCheck ==
  \A p \in SeqProcs :
    /\ (force[p] /\ pc[p] = "stat") =>
         /\ ~success /\ ~extractedDir
         /\ trace[p] = <<"pluginDir", "executable", "rmMarker", "rmDir">>
    /\ (force[p] /\ Did(p, "download")) =>
         /\ FirstAt(p, "rmDir") < FirstAt(p, "stat")
         /\ FirstAt(p, "stat") < FirstAt(p, "download")
    /\ (force[p] /\ ~entry[p].success /\ Did(p, "stat")) =>
         (pc[p] = "mkdir" \/ Did(p, "mkdir") \/ result[p] = "interrupted")

---------------------------------------------------------------------------
FetchErrors == {"DownloadFailed", "ArchiveExtractionFailed", "MarkerCreationFailed"}
ErrorOf(step) ==
  CASE step = "download" -> "DownloadFailed"
    [] step = "extract" -> "ArchiveExtractionFailed"
    [] step = "marker" -> "MarkerCreationFailed"

\* C5: the marker is created only by an invocation whose download and
\* extraction both returned without error; a failed download, extraction or
\* marker creation makes the invocation return that error with the marker
\* absent; and the invocation after it finds the cache not ready and goes
\* to the fetch again, download first.
C5_MarkerOnlyAfterFetch ==
  /\ [][ (~success /\ success') =>
           \E p \in SeqProcs :
             /\ pc[p] = "marker"
             /\ DidOk(p, "download") /\ DidOk(p, "extract")
             /\ FirstAt(p, "download") < FirstAt(p, "extract") ]_vars
  /\ [](\A p \in SeqProcs :
          /\ \A step \in {"download", "extract", "marker"} :
               step \in faults[p] => result[p] = ErrorOf(step)
          /\ (Returned(p) /\ result[p] \in FetchErrors) => ~success
          /\ (prev[p] \in FetchErrors /\ Did(p, "stat")) =>
               /\ ~entry[p].success
               /\ pc[p] = "mkdir" \/ Did(p, "mkdir") \/ result[p] = "interrupted"
               /\ Did(p, "extract") =>
                    FirstAt(p, "download") < FirstAt(p, "extract"))

\* a failed extraction was followed by an invocation that fetched again
C5_Witness ==
  \E p \in SeqProcs :
    /\ prev[p] = "ArchiveExtractionFailed"
    /\ ~force[p]
    /\ DidOk(p, "download") /\ DidOk(p, "extract")
    /\ result[p] = "MarkerCreationFailed" /\ ~success

---------------------------------------------------------------------------
\* C6: a non-forced invocation that finds the marker absent, whatever the
\* invocations before it left in extractedDir, and in which neither the
\* lookups, the download, the extraction nor the marker creation fault,
\* returns success with the marker present and the cache Ready.
C6_RetryIsSafe ==
  \A p \in SeqProcs :
    ( /\ ~force[p] /\ ~entry[p].success
      /\ Returned(p)
      /\ faults[p] \cap {"pluginDir", "executable", "download", "extract", "marker"} = {} )
    => (result[p] = "nil" /\ success /\ Complete)

\* a retry into a partly filled extractedDir has succeeded
C6_Witness ==
  \E p \in SeqProcs :
    /\ prev[p] \in FetchErrors \cup {"interrupted"}
    /\ ~force[p] /\ ~entry[p].success /\ entry[p].nonEmpty
    /\ Returned(p) /\ result[p] = "nil"
    /\ success /\ Complete

---------------------------------------------------------------------------
Launched(p) == child[p] \in {"started", "exitOk", "exitFail"}

\* C7: whenever DownloadDistIfNecessary returns an error, Run exits with
\* status 1 and no child is started.
C7_ErrorExitsWithoutChild ==
  \A p \in SeqProcs :
    (Returned(p) /\ result[p] # "nil") =>
      /\ child[p] = "none" /\ style[p] = "none"
      /\ pc[p] = "done" => exit[p] \in {"exit1", "crash"}

\* Run has exited with status 1 after a failed marker creation
C7_Witness ==
  \E p \in SeqProcs :
    /\ result[p] = "MarkerCreationFailed"
    /\ pc[p] = "done" /\ exit[p] = "exit1" /\ child[p] = "none"

---------------------------------------------------------------------------
\* C8: when the first argument is refresh, a child is launched only after
\* this invocation downloaded and extracted, with the arguments ["version"],
\* in blocking mode, against the installation this invocation extracted.
C8_RefreshRunsFreshInstallation ==
  \A p \in SeqProcs :
    (Launched(p) /\ args[p][2] = "refresh") =>
      /\ cmdArgs[p] = <<"version">>
      /\ style[p] = "ExecWithRun"
      /\ DidOk(p, "download") /\ DidOk(p, "extract")
      /\ ran[p].dir /\ \A f \in Files : ran[p].files[f] = Tag(p)

---------------------------------------------------------------------------
\* C10: when the child is run in blocking style and fails (it cannot be
\* started, or it exits unsuccessfully), the launcher ends with a non-zero
\* exit status.
C10_BlockingFailureExitsNonZero ==
  \A p \in SeqProcs :
    ( /\ pc[p] = "done" /\ exit[p] # "crash"
      /\ style[p] = "ExecWithRun"
      /\ child[p] \in {"startFailed", "exitFail"} )
    => exit[p] = "exit1"

---------------------------------------------------------------------------
\* Launch planning on its own: Run from the return of a cache hit on, for
\* every list of sub-arguments of up to MaxSubArgs tokens.

PlanTokens == HeadlessCommands \cup {"--ui", "get", "pods"}
PlanArgv ==
  UNION { { <<kask>> \o t : t \in [1..n -> PlanTokens] } : n \in 1..MaxSubArgs }

InitLaunch(argvs) ==
  /\ pluginVersion = dev
  /\ kuiDist = Unset
  /\ goos = "linux"
  /\ environ \in [Procs -> SUBSET InheritableEnv]
  /\ \A p \in Procs \ SeqProcs : environ[p] = {}
  /\ version = [p \in Procs |-> IF p \in SeqProcs THEN GetVersion(dev)
                                                  ELSE NoVersion]
  /\ url = [p \in Procs |-> IF p \in SeqProcs
                              THEN GetDistLocation(dev, Unset, "linux")
                              ELSE <<>>]
  /\ targetDir = TRUE
  /\ success = TRUE
  /\ extractedDir = TRUE
  /\ files = [f \in Files |-> "old"]
  /\ downloaded = "full"
  /\ symlink = TRUE
  /\ pc = [p \in Procs |-> IF p \in SeqProcs THEN "ret" ELSE "idle"]
  /\ args \in { [p \in Procs |-> IF p \in SeqProcs THEN a ELSE <<>>] :
                  a \in argvs }
  /\ force = [p \in Procs |-> FALSE]
  /\ result = [p \in Procs |-> IF p \in SeqProcs THEN "nil" ELSE "none"]
  /\ cmdEnv = [p \in Procs |-> IF p \in SeqProcs THEN environ[p] \cup BaseEnv
                                                 ELSE {}]
  /\ kuiCommandContext = [p \in Procs |-> <<>>]
  /\ cmdArgs = [p \in Procs |-> <<>>]
  /\ style = [p \in Procs |-> "none"]
  /\ child = [p \in Procs |-> "none"]
  /\ exit = [p \in Procs |-> "none"]
  /\ trace = [p \in Procs |->
                IF p \in SeqProcs THEN <<"pluginDir", "executable", "stat">>
                                  ELSE <<>>]
  /\ faults = [p \in Procs |-> {}]
  /\ entry = [p \in Procs |-> IF p \in SeqProcs
                                THEN [success |-> TRUE, nonEmpty |-> TRUE]
                                ELSE EmptyEntry]
  /\ prev = [p \in Procs |-> IF p \in SeqProcs THEN "nil" ELSE "none"]
  /\ ran = [p \in Procs |-> NoInstall]
  /\ readySince = TRUE

InitPlan == InitLaunch({ b \in PlanArgv : ~IsUsage(b) })

NextPlan == \E p \in SeqProcs : Launch(p)

SpecPlan == InitPlan /\ [][NextPlan]_vars

\* invokeRun has been called with a style
Planned(p) == pc[p] = "done" /\ style[p] # "none"

\* C9 as stated: the style is ExecWithRun exactly when the first
\* sub-argument is a recognized command and no --ui comes after it, and
\* ExecWithStart in every other case.
C9_BlockingIffNoUiAfter ==
  \A p \in SeqProcs :
    Planned(p) =>
      /\ style[p] \in {"ExecWithRun", "ExecWithStart"}
      /\ style[p] = "ExecWithRun" <=>
           /\ cmdArgs[p][1] \in {"install", "uninstall", "list", "version", "commands"}
           /\ ~ \E i \in 2..Len(cmdArgs[p]) : cmdArgs[p][i] = "--ui"

\* C9, amended: the style is ExecWithRun exactly when the first sub-argument
\* is a recognized command and the second sub-argument is not --ui, and
\* ExecWithStart in every other case; a --ui further on changes nothing.
C9_BlockingIffSecondNotUi ==
  \A p \in SeqProcs :
    Planned(p) =>
      /\ style[p] \in {"ExecWithRun", "ExecWithStart"}
      /\ style[p] = "ExecWithRun" <=>
           /\ cmdArgs[p][1] \in {"install", "uninstall", "list", "version", "commands"}
           /\ ~ (Len(cmdArgs[p]) >= 2 /\ cmdArgs[p][2] = "--ui")

\* a recognized command with --ui as its third sub-argument was planned
\* blocking
C9_Witness ==
  \E p \in SeqProcs :
    /\ Planned(p)
    /\ cmdArgs[p] = <<"install", "get", "--ui">>
    /\ style[p] = "ExecWithRun"
    /\ "KUI_HEADLESS" \in cmdEnv[p]

---------------------------------------------------------------------------
\* The command context, over invoked program names: Run from the point where
\* DownloadDistIfNecessary has returned the command of a ready cache.

foo == <<"f", "o", "o">>
myplugin == <<"m", "y", "p", "l", "u", "g", "i", "n">>
kubectlKask == kubectlPrefix \o kask

\* program names put together from a directory, a prefix, a stem and
\* trailing slashes
NameDirs == {<<>>, <<"/">>, <<"b", "i", "n", "/">>, <<"k", "u", "b", "e", "c", "t", "l", "-", "x", "/">>}
NamePrefixes == {<<>>, kubectlPrefix, <<"k", "u", "b", "e", "c", "t", "l">>, <<"x", "k", "u", "b", "e", "c", "t", "l", "-">>}
NameStems == {<<>>, kask, foo, myplugin}
NameTrails == {<<>>, <<"/">>}
ContextNames ==
  { d \o pre \o stem \o t :
      d \in NameDirs, pre \in NamePrefixes, stem \in NameStems, t \in NameTrails }

InitContext == InitLaunch({ <<n, "version">> : n \in ContextNames })

NextContext == \E p \in SeqProcs : Launch(p)

SpecContext == InitContext /\ [][NextContext]_vars

\* b is the base name of the program name n: the last piece of n between
\* slashes, slashes at the end of n not counted
IsBaseOf(b, n) ==
  \E i \in 1..Len(n) : \E j \in i..Len(n) :
    /\ b = SubSeq(n, i, j)
    /\ \A k \in i..j : n[k] # "/"
    /\ i = 1 \/ n[i - 1] = "/"
    /\ \A k \in (j + 1)..Len(n) : n[k] = "/"

StartsWithKubectl(b) ==
  \E rest \in {SubSeq(b, k, Len(b)) : k \in 1..(Len(b) + 1)} :
    b = kubectlPrefix \o rest

\* C11: for every invoked program name, the command context passed to the
\* child is the base name with the prefix kubectl- stripped when the base
\* name starts with that prefix and what is left is not kask, and it is the
\* default context plugin otherwise; kubectl-foo gives foo, kubectl-kask and
\* myplugin give plugin, and the context is never kask.
C11_CommandContext ==
  \A p \in SeqProcs :
    Planned(p) =>
      LET n == args[p][1]
          ctx == kuiCommandContext[p]
          bases == { SubSeq(n, i, j) : i \in 1..Len(n), j \in 1..Len(n) }
      IN /\ "KUI_COMMAND_CONTEXT" \in cmdEnv[p]
         /\ ctx # kask
         /\ \A b \in bases :
              IsBaseOf(b, n) =>
                IF StartsWithKubectl(b) /\ b # kubectlKask
                  THEN kubectlPrefix \o ctx = b
                  ELSE ctx = defaultCommandContext
         /\ (~ \E b \in bases : IsBaseOf(b, n)) => ctx = defaultCommandContext
         /\ n = kubectlFoo => ctx = foo
         /\ n \in {kubectlKask, myplugin} => ctx = defaultCommandContext

\* a launch under the name bin/kubectl-kask/ was given the default context
C11_Witness ==
  \E p \in SeqProcs :
    /\ Planned(p)
    /\ args[p][1] = <<"b", "i", "n", "/">> \o kubectlKask \o <<"/">>
    /\ kuiCommandContext[p] = defaultCommandContext
    /\ "KUI_COMMAND_CONTEXT" \in cmdEnv[p]

---------------------------------------------------------------------------
\* The help path.

HelpFlags == {"-h", "--help"}

\* the argument list is the program name alone, or the name and one help flag
HelpShaped(a) == Len(a) = 1 \/ (Len(a) = 2 /\ a[2] \in HelpFlags)

Invoked(p) == args[p] # <<>>

\* C12: invoked with -h or --help and no further arguments, or with no
\* arguments at all, the launcher exits with status 1 without a single call
\* on the cache (no marker check, removal, download or extraction), leaves
\* the cache and the symlink as they were and launches no child; invoked with
\* -h or --help followed by further arguments it calls
\* DownloadDistIfNecessary like any other invocation.
C12_HelpPathLeavesCache ==
  /\ [](\A p \in SeqProcs :
          (Invoked(p) /\ HelpShaped(args[p])) =>
             /\ pc[p] = "done"
             /\ exit[p] = "exit1"
             /\ result[p] = "none"
             /\ trace[p] = <<>>
             /\ child[p] = "none"
             /\ style[p] = "none")
  /\ [](\A p \in SeqProcs :
          (Invoked(p) /\ Len(args[p]) > 2 /\ args[p][2] \in HelpFlags) =>
             /\ result[p] # "none"
             /\ pc[p] = "done" => (exit[p] # "exit1" \/ result[p] # "nil"))
  /\ [][ \A p \in SeqProcs :
           (pc'[p] # pc[p] /\ HelpShaped(args'[p])) =>
              /\ CacheOnDisk' = CacheOnDisk
              /\ symlink' = symlink ]_vars

\* kask --help on a Ready cache has printed the usage and exited with 1
C12_Witness ==
  \E p \in SeqProcs :
    /\ args[p] = <<kask, "--help">>
    /\ pc[p] = "done"
    /\ exit[p] = "exit1"
    /\ trace[p] = <<>>
    /\ success
    /\ Complete

---------------------------------------------------------------------------
\* The version, over build-time version strings: DownloadDistIfNecessary
\* from its first line, on an empty cache.

\* the processes in procs have just called DownloadDistIfNecessary, with
\* argument lists from argvs; the build and the machine are set by the caller
InitBegun(procs, argvs) ==
  /\ environ = [p \in Procs |-> {}]
  /\ version = [p \in Procs |-> NoVersion]
  /\ url = [p \in Procs |-> <<>>]
  /\ targetDir = FALSE
  /\ success = FALSE
  /\ extractedDir = FALSE
  /\ files = NoFiles
  /\ downloaded = "none"
  /\ symlink = FALSE
  /\ pc = [p \in Procs |-> IF p \in procs THEN "metadata" ELSE "idle"]
  /\ args \in { [p \in Procs |-> IF p \in procs THEN f[p] ELSE <<>>] :
                  f \in [procs -> argvs] }
  /\ force = [p \in Procs |-> p \in procs /\ RefreshRequested(args[p])]
  /\ result = [p \in Procs |-> IF p \in procs THEN "running" ELSE "none"]
  /\ cmdEnv = [p \in Procs |-> {}]
  /\ kuiCommandContext = [p \in Procs |-> <<>>]
  /\ cmdArgs = [p \in Procs |-> <<>>]
  /\ style = [p \in Procs |-> "none"]
  /\ child = [p \in Procs |-> "none"]
  /\ exit = [p \in Procs |-> "none"]
  /\ trace = [p \in Procs |-> <<>>]
  /\ faults = [p \in Procs |-> {}]
  /\ entry = [p \in Procs |-> EmptyEntry]
  /\ prev = [p \in Procs |-> "none"]
  /\ ran = [p \in Procs |-> NoInstall]
  /\ readySince = FALSE

\* what stands between the dots of a version string: nothing, numbers,
\* a number with a leading zero, a word, a negative number
VersionComponents ==
  {<<>>, <<"0">>, <<"1">>, <<"1", "0">>, <<"0", "1">>, <<"x">>, <<"-", "1">>}

RECURSIVE Join(_)
Join(cs) ==
  IF Len(cs) = 1 THEN cs[1] ELSE cs[1] \o <<".">> \o Join(Tail(cs))

VersionStrings ==
  {dev} \cup
  { Join(cs) : cs \in UNION { [1..k -> VersionComponents] : k \in 1..MaxComponents } }

InitVersion ==
  /\ pluginVersion \in VersionStrings
  /\ kuiDist = Unset
  /\ goos = "linux"
  /\ InitBegun(SeqProcs, {<<kask, "version">>})

NextVersion == \E p \in SeqProcs : GetMetadata(p) \/ DistLocation(p)

SpecVersion == InitVersion /\ [][NextVersion]_vars

DotsOf(v) == { i \in 1..Len(v) : v[i] = "." }

\* exactly three components between dots, each a non-empty run of digits
WellFormed(v) ==
  /\ Cardinality(DotsOf(v)) = 2
  /\ \A i \in 1..Len(v) : v[i] \in Digits \cup {"."}
  /\ Len(v) > 0 /\ v[1] # "." /\ v[Len(v)] # "."
  /\ \A i \in DotsOf(v) : (i + 1) \notin DotsOf(v)

Resolved(p) == version[p].kind # "none"

\* C13: resolving a version string that is not dev and is malformed (not
\* exactly three dot-separated components, or a component that is not a
\* non-negative integer) fails with InvalidVersionFormat, and never gives a
\* Semantic value.
C13_MalformedVersionFails ==
  \A p \in SeqProcs :
    (Resolved(p) /\ pluginVersion # dev /\ ~WellFormed(pluginVersion)) =>
       version[p].kind = "InvalidVersionFormat"

\* three components, each the decimal numeral of a non-negative integer:
\* digits only, and no zero in front of another digit
IsNumeralVersion(v) ==
  /\ WellFormed(v)
  /\ \A i \in 1..Len(v) :
       (v[i] = "0" /\ (i = 1 \/ v[i - 1] = ".")) => (i = Len(v) \/ v[i + 1] = ".")

\* C20: for every version string a.b.c of three non-negative integers,
\* resolving it gives the Semantic value whose rendering is a.b.c again, and
\* resolving dev gives the Unpinned variant, whose rendering is the
\* development tag; the rendering is what the distribution URL is built from.
C20_VersionRoundTrip ==
  \A p \in SeqProcs :
    Resolved(p) =>
      /\ IsNumeralVersion(pluginVersion) =>
           /\ version[p].kind = "SemVer"
           /\ String(version[p]) = pluginVersion
      /\ pluginVersion = dev =>
           /\ version[p].kind = "DevVer"
           /\ String(version[p]) = dev
      /\ (IsNumeralVersion(pluginVersion) \/ pluginVersion = dev) =>
           /\ pc[p] # "done"
           /\ pc[p] = "pluginDir" =>
                SubSeq(url[p], 1, Len(defaultHost) + Len(pluginVersion))
                  = defaultHost \o pluginVersion

\* 10.0.1 was resolved to SemVer{10, 0, 1} and rendered into the URL
C20_Witness ==
  \E p \in SeqProcs :
    /\ pluginVersion = <<"1", "0", ".", "0", ".", "1">>
    /\ version[p] = [kind |-> "SemVer", Major |-> 10, Minor |-> 0, Build |-> 1]
    /\ pc[p] = "pluginDir"
    /\ url[p] = defaultHost \o pluginVersion \o <<"/", "K", "u", "i">> \o suffixLinux

---------------------------------------------------------------------------
\* The distribution URL, over KUI_DIST overrides and operating systems.

Override(v) == [set |-> TRUE, value |-> v]

\* hosts an override may name: empty, without and with a slash at the end
OverrideHosts ==
  {<<>>, <<"/">>, <<"h">>, <<"h", "/">>, <<"h", "/", "/">>, <<"h", "t", "t", "p", ":", "/", "/", "h">>, <<"h", "t", "t", "p", ":", "/", "/", "h", "/">>}

DistOverrides == {Unset} \cup { Override(h) : h \in OverrideHosts }

OperatingSystems == {"windows", "darwin", "linux", "freebsd"}

DistVersions == {dev, <<"1", ".", "0", ".", "1">>, <<"0", ".", "1", "0", ".", "0">>}

InitDist ==
  /\ pluginVersion \in DistVersions
  /\ kuiDist \in DistOverrides
  /\ goos \in OperatingSystems
  /\ InitBegun(SeqProcs, {<<kask, "version">>})

NextDist == \E p \in SeqProcs : GetMetadata(p) \/ DistLocation(p)

SpecDist == InitDist /\ [][NextDist]_vars

Located(p) == url[p] # <<>>

\* the host the URL is to use: the override when set, else the fixed host
\* with the version
HostOf == IF kuiDist.set THEN kuiDist.value ELSE defaultHost \o pluginVersion

\* the file name the URL is to end in
FileOf ==
  <<"K", "u", "i">> \o
    (IF goos = "windows" THEN <<"-", "b", "a", "s", "e", "-", "w", "i", "n", "3", "2", "-", "x", "6", "4", ".", "z", "i", "p">>
     ELSE IF goos = "darwin" THEN <<"-", "b", "a", "s", "e", "-", "d", "a", "r", "w", "i", "n", "-", "x", "6", "4", ".", "t", "a", "r", ".", "b", "z", "2">>
     ELSE <<"-", "b", "a", "s", "e", "-", "l", "i", "n", "u", "x", "-", "x", "6", "4", ".", "z", "i", "p">>)

\* C14: for every value of KUI_DIST (unset, set without a slash at the end,
\* set with one), the distribution URL is the host, one slash and the file
\* name Kui<suffix>, where the host is the whole override when it is set and
\* the fixed versioned host otherwise, and a slash the host already ends in
\* is the one slash.
C14_DistURL ==
  \A p \in SeqProcs :
    Located(p) =>
      LET host == HostOf
          ends == Len(host) > 0 /\ host[Len(host)] = "/"
          stem == IF ends THEN SubSeq(host, 1, Len(host) - 1) ELSE host
      IN /\ url[p] = stem \o <<"/">> \o FileOf
         /\ Len(url[p]) = Len(host) + Len(FileOf) + (IF ends THEN 0 ELSE 1)

\* KUI_DIST=http://h/ on darwin: the URL has the one slash of the override
C14_Witness ==
  \E p \in SeqProcs :
    /\ kuiDist = Override(<<"h", "t", "t", "p", ":", "/", "/", "h", "/">>)
    /\ goos = "darwin"
    /\ url[p] = <<"h", "t", "t", "p", ":", "/", "/", "h", "/", "K", "u", "i", "-", "b", "a", "s", "e", "-", "d", "a", "r", "w", "i", "n", "-", "x", "6", "4", ".", "t", "a", "r", ".", "b", "z", "2">>

---------------------------------------------------------------------------
\* Retry over a partial extraction.

\* a non-forced invocation that found the marker absent and extractedDir
\* non-empty
RetryOverLeftovers(p) ==
  /\ ~force[p]
  /\ ~entry[p].success
  /\ entry[p].nonEmpty
  /\ Did(p, "stat")

\* C15: a non-forced invocation that finds the marker absent and
\* extractedDir non-empty has cleared extractedDir when it starts to extract
\* the new archive, and when it has created the marker extractedDir holds
\* only files of its own extraction.
C15_RetryClearsExtractedDir ==
  \A p \in SeqProcs :
    RetryOverLeftovers(p) =>
      /\ pc[p] = "extract" => files = NoFiles
      /\ (DidOk(p, "marker") /\ pc[p] = "ret") =>
           \A f \in Files : files[f] = Tag(p)

---------------------------------------------------------------------------
\* Two launcher processes in DownloadDistIfNecessary for the same version at
\* the same time, on an empty cache; their calls interleave one by one.

InitRace ==
  /\ pluginVersion = dev
  /\ kuiDist = Unset
  /\ goos = "linux"
  /\ InitBegun(Procs, {<<kask, "version">>, <<kask, "refresh">>})

StepRace(p) ==
  \/ GetMetadata(p)
  \/ DistLocation(p)
  \/ PluginDirectory(p)
  \/ Executable(p)
  \/ RemoveMarker(p)
  \/ RemoveExtracted(p)
  \/ Stat(p)
  \/ MkdirAll(p)
  \/ DownloadFile(p)
  \/ Symlink(p)
  \/ Unarchive(p)
  \/ CreateMarker(p)
  \/ Launch(p)
  \/ Crash(p)

NextRace == \E p \in Procs : StepRace(p)

SpecRace == InitRace /\ [][NextRace]_vars

\* p saw the marker absent and went on to fetch
SawNotReady(p) == Did(p, "stat") /\ Did(p, "mkdir")

\* C16: nothing makes one process wait for the other: a process whose
\* readiness check finds the marker absent goes on to fetch (unless it is
\* killed there) whatever the other process is doing, so both can see "not
\* ready" and both download and extract into the same targetDir.
C16_NoLockOnCache ==
  [][ \A p \in Procs :
        (pc[p] = "stat" /\ pc'[p] # "stat" /\ ~success) =>
           /\ pc'[p] = "mkdir" \/ result'[p] = "interrupted"
           /\ \A q \in Procs \ {p} : pc'[q] = pc[q] ]_vars

\* both processes saw the marker absent and both downloaded; one has created
\* the success marker while the other has yet to extract
C16_Witness ==
  \E p \in Procs : \E q \in Procs \ {p} :
    /\ ~force[p] /\ ~force[q]
    /\ SawNotReady(p) /\ SawNotReady(q)
    /\ DidOk(p, "download") /\ DidOk(q, "download")
    /\ DidOk(q, "marker")
    /\ success
    /\ pc[p] = "extract"

---------------------------------------------------------------------------
\* KUI_HEADLESS in the environment of the child.

\* C17 as stated: on every launch the environment of the child contains
\* KUI_HEADLESS=true if and only if the style is ExecWithRun; a launch with
\* ExecWithStart never carries it.
C17_HeadlessIffBlocking ==
  \A p \in SeqProcs :
    Planned(p) =>
      ("KUI_HEADLESS" \in cmdEnv[p] <=> style[p] = "ExecWithRun")

\* C17, amended: on every launch with ExecWithRun the environment of the
\* child contains KUI_HEADLESS=true, and the launcher itself adds it on no
\* other launch: a launch with ExecWithStart carries it exactly when the
\* launcher's own environment, which the child inherits, had it.
C17_HeadlessIffBlockingOrInherited ==
  \A p \in SeqProcs :
    Planned(p) =>
      /\ style[p] = "ExecWithRun" => "KUI_HEADLESS" \in cmdEnv[p]
      /\ style[p] = "ExecWithStart" =>
           ("KUI_HEADLESS" \in cmdEnv[p] <=> "KUI_HEADLESS" \in environ[p])
      /\ environ[p] \subseteq cmdEnv[p]

\* install --ui launched detached from a shell that exports
\* KUI_HEADLESS=true: the child has the variable
C17_Witness ==
  \E p \in SeqProcs :
    /\ Planned(p)
    /\ cmdArgs[p] = <<"install", "--ui">>
    /\ style[p] = "ExecWithStart"
    /\ "KUI_HEADLESS" \in environ[p]
    /\ "KUI_HEADLESS" \in cmdEnv[p]

---------------------------------------------------------------------------
\* The self-symlink step.

\* the calls whose error DownloadDistIfNecessary returns
FatalCalls == {"pluginDir", "executable", "download", "extract", "marker"}

\* C18: the self-symlink step is attempted only on the cache-miss path, after
\* a successful download and before extraction, and its failure never changes
\* the outcome: the step always leads on to extraction with the cache as it
\* was, and an invocation in which nothing but the symlink (or another call
\* whose error is only logged) failed returns the command with the marker
\* created.
C18_SymlinkIsNonFatal ==
  /\ [](\A p \in SeqProcs :
          /\ Did(p, "symlink") =>
               /\ Did(p, "stat") /\ Did(p, "mkdir")
               /\ FirstAt(p, "stat") < FirstAt(p, "symlink")
               /\ DidOk(p, "download")
               /\ FirstAt(p, "download") < FirstAt(p, "symlink")
               /\ Did(p, "extract") =>
                    FirstAt(p, "symlink") < FirstAt(p, "extract")
          /\ (Did(p, "extract") /\ DidOk(p, "download")) => Did(p, "symlink")
          /\ (Returned(p) /\ faults[p] \cap FatalCalls = {}) =>
               /\ result[p] = "nil"
               /\ Did(p, "symlink") => (DidOk(p, "marker") /\ DidOk(p, "extract")))
  /\ [][ \A p \in SeqProcs :
           (pc[p] = "symlink" /\ pc'[p] # "symlink") =>
              /\ pc'[p] = "extract" \/ result'[p] = "interrupted"
              /\ pc'[p] = "extract" => result'[p] = result[p]
              /\ CacheOnDisk' = CacheOnDisk ]_vars

\* the symlink could not be created, and the invocation still extracted,
\* created the marker and returned the command
C18_Witness ==
  \E p \in SeqProcs :
    /\ "symlink" \in faults[p]
    /\ ~symlink
    /\ DidOk(p, "extract")
    /\ DidOk(p, "marker")
    /\ Returned(p)
    /\ result[p] = "nil"
    /\ success

---------------------------------------------------------------------------
\* A forced invocation that fails.

\* a forced invocation that found the cache Ready has returned a download or
\* extraction error
ForcedFetchFailed(p) ==
  /\ force[p]
  /\ entry[p].success
  /\ Returned(p)
  /\ result[p] \in {"DownloadFailed", "ArchiveExtractionFailed"}

\* C19: when the cache was Ready and a forced invocation fails at download or
\* extraction, the cache is left not ready: the marker is absent and
\* extractedDir is removed or partial, the earlier installation is not
\* there any more, and the following non-forced invocation finds the marker
\* absent and fetches again.
C19_ForcedFailureDestroys ==
  \A p \in SeqProcs :
    /\ ForcedFetchFailed(p) =>
         /\ ~success
         /\ ~extractedDir \/ ~Complete
         /\ ~ \A f \in Files : files[f] = "old"
    /\ (~force[p] /\ result[p] # "none"
          /\ prev[p] \in {"DownloadFailed", "ArchiveExtractionFailed"}) =>
         /\ ~entry[p].success
         /\ Did(p, "stat") =>
              (pc[p] = "mkdir" \/ Did(p, "mkdir") \/ result[p] = "interrupted")

============================================================================
